---- MODULE Spec2Model ----
(***************************************************************************)
(* Model of MailProcessor.process() of functions/ews-mail-export/mail.py:  *)
(* attachment loading and PDF merging, recipient resolution, the primary   *)
(* send decision and the reply step with its suppression gates.            *)
(*                                                                         *)
(* Strings the code inspects character by character (mimetype, sender,     *)
(* recipient, subject) are sequences of one-character strings.             *)
(***************************************************************************)
EXTENDS Integers, Sequences, FiniteSets, TLC

VARIABLES
    email,        \* self._email: sender, recipient, subject, body, attachments
    config,       \* self._config (EWSConfig)
    original,     \* the attachment list process() was started with
    pc,           \* position inside process()
    idx,          \* position of the download loop in _load_attachments
    pdf_count,    \* value returned by _load_attachments
    recipient,    \* local variable recipient of process()
    calls,        \* every _send_email call so far, in order
    reply_calls,  \* every _send_reply_email call so far (template paths)
    rendered,     \* templates opened and rendered so far
    result,       \* outcome of process(): "running", "True", "False", "raised"
    opened,       \* the attachments whose content _merge_pdfs gave to Pdf.open
    constructed,  \* MailProcessor.__init__ has completed for this processor
    handler       \* handler(request) of main.py: position, variant, message

vars == <<email, config, original, pc, idx, pdf_count, recipient, calls,
          reply_calls, rendered, result, opened, constructed, handler>>

(***************************************************************************)
(* Bounds                                                                  *)
(***************************************************************************)
MaxAttachments == 2

(***************************************************************************)
(* Strings                                                                 *)
(***************************************************************************)
SubjectLimit == 255

Min(a, b) == IF a < b THEN a ELSE b

UpperToLower ==
    ("A" :> "a") @@ ("B" :> "b") @@ ("I" :> "i") @@ ("U" :> "u") @@ ("X" :> "x")

\* str.lower()
Lower(s) ==
    [i \in 1..Len(s) |-> IF s[i] \in DOMAIN UpperToLower THEN UpperToLower[s[i]] ELSE s[i]]

\* str.endswith(suffix)
EndsWith(s, suffix) ==
    /\ Len(s) >= Len(suffix)
    /\ SubSeq(s, Len(s) - Len(suffix) + 1, Len(s)) = suffix

\* str.startswith(prefix)
StartsWith(s, prefix) ==
    /\ Len(s) >= Len(prefix)
    /\ SubSeq(s, 1, Len(prefix)) = prefix

\* s[:n]
Truncate(s, n) == SubSeq(s, 1, Min(Len(s), n))

\* [x for x in s if Test(x)]
RECURSIVE SelectSeqIdx(_, _, _)
SelectSeqIdx(s, keep, i) ==
    IF i > Len(s) THEN <<>>
    ELSE (IF keep[i] THEN <<s[i]>> ELSE <<>>) \o SelectSeqIdx(s, keep, i + 1)

PdfSuffix == <<"p", "d", "f">>

IsPdf(a) == EndsWith(a.mimetype, PdfSuffix)

\* [a for a in attachments if a.mimetype.endswith("pdf")]
PdfList(atts) == SelectSeqIdx(atts, [i \in 1..Len(atts) |-> IsPdf(atts[i])], 1)

\* [a for a in attachments if not a.mimetype.endswith("pdf")]
NonPdfList(atts) == SelectSeqIdx(atts, [i \in 1..Len(atts) |-> ~IsPdf(atts[i])], 1)

(***************************************************************************)
(* Attachments and the bucket they are read from                           *)
(***************************************************************************)
None == "None"

NoContent == [kind |-> "none", pages |-> <<>>]

MimePdf == <<"a","p","p","l","i","c","a","t","i","o","n","/","p","d","f">>
MimePng == <<"i","m","a","g","e","/","p","n","g">>
MimeOctet == <<"b","i","n","a","r","y","/","o","c","t","e","t","-","s","t","r","e","a","m">>

Attachment(mimetype, file_name, full_path) ==
    [mimetype |-> mimetype, bucket |-> "bucket", file_name |-> file_name,
     full_path |-> full_path, content |-> NoContent]

AttachmentPool ==
    { Attachment(MimePdf, "a.pdf", "in/a.pdf"),
      Attachment(MimePdf, "b.pdf", "in/b.pdf"),
      Attachment(MimePng, "c.png", "in/c.png"),
      Attachment(MimePdf, "gone.pdf", "in/gone.pdf"),
      Attachment(MimePdf, "bad.pdf", "in/bad.pdf"),
      Attachment(MimeOctet, "d.bin", "in/d.bin") }

\* The blobs of the bucket: in/gone.pdf does not exist, in/bad.pdf is no PDF,
\* in/d.bin is a PDF stored under another mimetype.
Blobs ==
    ("in/a.pdf" :> [kind |-> "pdf", pages |-> <<"a1", "a2">>]) @@
    ("in/b.pdf" :> [kind |-> "pdf", pages |-> <<"b1">>]) @@
    ("in/c.png" :> [kind |-> "raw", pages |-> <<>>]) @@
    ("in/bad.pdf" :> [kind |-> "raw", pages |-> <<>>]) @@
    ("in/d.bin" :> [kind |-> "pdf", pages |-> <<"d1">>])

\* _read_gcs: get_blob() gives None for a missing blob, download then raises
ReadGcsFails(full_path) == full_path \notin DOMAIN Blobs

\* slip: the downloaded bytes are not returned
ReadGcs_NoReturn(full_path) == NoContent

ReadGcs(full_path) == Blobs[full_path]

AttachmentLists ==
    UNION { [1..n -> AttachmentPool] : n \in 0..MaxAttachments }

(***************************************************************************)
(* Inputs: the e-mail and the configuration process() is run with          *)
(***************************************************************************)
Standard == <<"S","T","A","N","D","A","R","D">>

InboxKey == <<"I","n","@","x">>

LongSubjectLen == 252

Senders ==
    { <<"i","n","@","x">>,      \* the recipient in another case
      <<"b","@","x">>,          \* on the ignore list
      <<"B","@","x">>,          \* on the ignore list once lower-cased
      <<"u","@","x">> }

Subjects ==
    { <<"a","b">>,
      <<"U",":","a">>,          \* starts with an ignored prefix
      [i \in 1..LongSubjectLen |-> "x"] }

RouteEntry(recipient_email, sender_account) ==
    [recipient_email |-> recipient_email, sender_account |-> sender_account]

KeyEntry == RouteEntry(<<"d","@","x">>, "reply-key")

StandardEntry == RouteEntry(<<"s","@","x">>, "reply-std")

Mappings ==
    { [k \in S |-> IF k = Standard THEN StandardEntry ELSE KeyEntry] :
        S \in SUBSET {InboxKey, Standard} }

Recipients == {InboxKey, Standard}

Emails ==
    { [sender |-> s, recipient |-> r, subject |-> sub,
       body |-> <<"body">>, attachments |-> atts] :
        s \in Senders, r \in Recipients, sub \in Subjects,
        atts \in AttachmentLists }

Configs ==
    { [mail_to_mapping |-> m, needs_pdfs |-> np, pdf_only |-> po,
       merge_pdfs |-> mp, send_replies |-> sr,
       reply_to_email |-> <<"r","@","x">>,
       ignore_reply_subjects |-> << <<"U",":">> >>,
       ignore_reply_senders |-> << <<"b","@","x">>, <<"X","@","x">> >>] :
        m \in Mappings, np \in BOOLEAN, po \in BOOLEAN, mp \in BOOLEAN,
        sr \in BOOLEAN }

\* process() is entered directly: no handler(request) is running
NoHandler == [pc |-> "none", variant |-> "none", request |-> <<>>]

Init ==
    /\ email \in Emails
    /\ config \in Configs
    /\ original = email.attachments
    /\ pc = "load"
    /\ idx = 0
    /\ pdf_count = -1
    /\ recipient = <<>>
    /\ calls = <<>>
    /\ reply_calls = <<>>
    /\ rendered = <<>>
    /\ result = "running"
    /\ opened = <<>>
    /\ constructed = FALSE
    /\ handler = NoHandler

(***************************************************************************)
(* _load_attachments                                                       *)
(***************************************************************************)
\* slip: every attachment is counted, not only the PDFs
CountPdfs_AllAttachments(atts) == Len(atts)

\* len(pdf_list)
CountPdfs(atts) == Len(PdfList(atts))

\* slip: pdf_only is not consulted
LoadFilter_Unfiltered ==
    /\ pc = "load"
    /\ pdf_count' = CountPdfs(email.attachments)
    /\ idx' = 1
    /\ pc' = "download"
    /\ UNCHANGED <<email, config, original, recipient, calls, reply_calls,
                   rendered, result, opened, constructed, handler>>

\* pdf_list, pdf_count and the pdf_only filter
LoadFilter ==
    /\ pc = "load"
    /\ pdf_count' = CountPdfs(email.attachments)
    /\ email' = [email EXCEPT !.attachments =
                    IF config.pdf_only THEN PdfList(@) ELSE @]
    /\ idx' = 1
    /\ pc' = "download"
    /\ UNCHANGED <<config, original, recipient, calls, reply_calls, rendered,
                   result, opened, constructed, handler>>

\* one round of the download loop: the blob is read into attachment.content
Download ==
    /\ pc = "download"
    /\ idx <= Len(email.attachments)
    /\ ~ReadGcsFails(email.attachments[idx].full_path)
    /\ email' = [email EXCEPT !.attachments[idx].content =
                    ReadGcs(email.attachments[idx].full_path)]
    /\ idx' = idx + 1
    /\ UNCHANGED <<config, original, pc, pdf_count, recipient, calls,
                   reply_calls, rendered, result, opened, constructed,
                   handler>>

\* slip: the failed read is logged and the loop goes on
DownloadFail_Skipped ==
    /\ pc = "download"
    /\ idx <= Len(email.attachments)
    /\ ReadGcsFails(email.attachments[idx].full_path)
    /\ email' = [email EXCEPT !.attachments[idx].content =
                    [kind |-> "pdf", pages |-> <<>>]]
    /\ idx' = idx + 1
    /\ UNCHANGED <<config, original, pc, pdf_count, recipient, calls,
                   reply_calls, rendered, result, opened, constructed,
                   handler>>

\* _read_gcs raises: process() is left with the exception
DownloadFail ==
    /\ pc = "download"
    /\ idx <= Len(email.attachments)
    /\ ReadGcsFails(email.attachments[idx].full_path)
    /\ pc' = "done"
    /\ result' = "raised"
    /\ UNCHANGED <<email, config, original, idx, pdf_count, recipient, calls,
                   reply_calls, rendered, opened, constructed, handler>>

\* if self._email.attachments and self._config.merge_pdfs
MergeWanted == email.attachments # <<>> /\ config.merge_pdfs

\* Pdf.open(file) raises on content that is no PDF
PdfOpenFails(content) == content.kind # "pdf"

\* the buffers _merge_pdfs opens, in order
MergeInputs(atts) == atts

RECURSIVE ConcatPages(_)
ConcatPages(atts) ==
    IF atts = <<>> THEN <<>>
    ELSE Head(atts).content.pages \o ConcatPages(Tail(atts))

\* slip: the merged file is named after the first PDF, not the first attachment
MergedAttachment_FirstPdfName(attachment_name, inputs) ==
    [mimetype |-> MimePdf, bucket |-> None,
     file_name |-> IF PdfList(inputs) # <<>> THEN Head(PdfList(inputs)).file_name
                   ELSE attachment_name,
     full_path |-> None,
     content |-> [kind |-> "pdf", pages |-> ConcatPages(inputs)]]

MergedAttachment(attachment_name, inputs) ==
    [mimetype |-> MimePdf, bucket |-> None, file_name |-> attachment_name,
     full_path |-> None,
     content |-> [kind |-> "pdf", pages |-> ConcatPages(inputs)]]

MergeFails(atts) ==
    \E i \in 1..Len(MergeInputs(atts)) : PdfOpenFails(MergeInputs(atts)[i].content)

\* the position of the first buffer Pdf.open raises on
FirstUnreadable(inputs) ==
    CHOOSE i \in 1..Len(inputs) :
        /\ PdfOpenFails(inputs[i].content)
        /\ \A j \in 1..(i - 1) : ~PdfOpenFails(inputs[j].content)

\* _merge_pdfs succeeds and _load_attachments returns pdf_count
MergePdfs ==
    /\ pc = "download"
    /\ idx > Len(email.attachments)
    /\ MergeWanted
    /\ ~MergeFails(email.attachments)
    /\ email' = [email EXCEPT !.attachments =
                    <<MergedAttachment(Head(@).file_name, MergeInputs(@))>>
                        \o NonPdfList(@)]
    /\ opened' = MergeInputs(email.attachments)
    /\ pc' = "resolve"
    /\ UNCHANGED <<config, original, idx, pdf_count, recipient, calls,
                   reply_calls, rendered, result, constructed, handler>>

\* _merge_pdfs raises after it has taken the PDFs out of the list
MergePdfsFail ==
    /\ pc = "download"
    /\ idx > Len(email.attachments)
    /\ MergeWanted
    /\ MergeFails(email.attachments)
    /\ email' = [email EXCEPT !.attachments = NonPdfList(@)]
    /\ opened' = SubSeq(MergeInputs(email.attachments), 1,
                        FirstUnreadable(MergeInputs(email.attachments)))
    /\ pc' = "done"
    /\ result' = "raised"
    /\ UNCHANGED <<config, original, idx, pdf_count, recipient, calls,
                   reply_calls, rendered, constructed, handler>>

\* nothing to merge: _load_attachments returns pdf_count
LoadReturn ==
    /\ pc = "download"
    /\ idx > Len(email.attachments)
    /\ ~MergeWanted
    /\ pc' = "resolve"
    /\ UNCHANGED <<email, config, original, idx, pdf_count, recipient, calls,
                   reply_calls, rendered, result, opened, constructed,
                   handler>>

(***************************************************************************)
(* process(): recipient resolution                                         *)
(***************************************************************************)
\* mail_to_mapping.get(key) is truthy
HasEntry(mapping, key) == key \in DOMAIN mapping

\* slip: the STANDARD check is dropped and every key is routed
RecipientFound_Always(mapping, key) == TRUE

\* process() returns False: neither the key nor STANDARD is mapped
RecipientFound(mapping, key) == HasEntry(mapping, key) \/ HasEntry(mapping, Standard)

\* slip: the fallback takes the address of the STANDARD entry
ResolveRecipient_StandardAddress(mapping, key) ==
    IF ~HasEntry(mapping, key) THEN mapping[Standard].recipient_email
    ELSE mapping[key].recipient_email

\* the address the primary message goes to
ResolveRecipient(mapping, key) ==
    IF ~HasEntry(mapping, key) THEN key ELSE mapping[key].recipient_email

ResolveOk ==
    /\ pc = "resolve"
    /\ RecipientFound(config.mail_to_mapping, email.recipient)
    /\ recipient' = ResolveRecipient(config.mail_to_mapping, email.recipient)
    /\ pc' = "primary"
    /\ UNCHANGED <<email, config, original, idx, pdf_count, calls,
                   reply_calls, rendered, result, opened, constructed,
                   handler>>

ResolveFail ==
    /\ pc = "resolve"
    /\ ~RecipientFound(config.mail_to_mapping, email.recipient)
    /\ pc' = "done"
    /\ result' = "False"
    /\ UNCHANGED <<email, config, original, idx, pdf_count, recipient, calls,
                   reply_calls, rendered, opened, constructed, handler>>

(***************************************************************************)
(* _send_email                                                             *)
(***************************************************************************)
PrimaryAccount == "_account"

ReplyAccount == "_reply_email_account"

\* FileAttachment(name=attachment.file_name, content=attachment.content)
FileAttachments(attachments) ==
    [i \in 1..Len(attachments) |->
        [name |-> attachments[i].file_name, content |-> attachments[i].content]]

\* the Message handed to send_and_save(); sent tells whether that call returned
Message(account, subject, body, recipients, attachments, reply_to, sent) ==
    [account |-> account, subject |-> subject, body |-> body,
     to_recipients |-> recipients, reply_to |-> reply_to,
     attachments |-> FileAttachments(attachments), sent |-> sent]

(***************************************************************************)
(* process(): the primary message                                          *)
(***************************************************************************)
\* slip: needs_pdfs is not consulted
PrimaryEligible_Always(needs_pdfs, count) == TRUE

\* if needs_pdfs: if pdf_count > 0: send  /  else: send
PrimaryEligible(needs_pdfs, count) == IF needs_pdfs THEN count > 0 ELSE TRUE

PrimaryMessage(sent) ==
    Message(PrimaryAccount, email.subject, email.body, <<recipient>>,
            email.attachments, <<>>, sent)

SendPrimary ==
    /\ pc = "primary"
    /\ PrimaryEligible(config.needs_pdfs, pdf_count)
    /\ calls' = Append(calls, PrimaryMessage(TRUE))
    /\ pc' = "reply"
    /\ UNCHANGED <<email, config, original, idx, pdf_count, recipient,
                   reply_calls, rendered, result, opened, constructed,
                   handler>>

\* slip: a failed primary send is tried again
SendPrimaryFail_Retried ==
    /\ pc = "primary"
    /\ PrimaryEligible(config.needs_pdfs, pdf_count)
    /\ Len(calls) < 3
    /\ calls' = Append(calls, PrimaryMessage(FALSE))
    /\ UNCHANGED <<email, config, original, pc, idx, pdf_count, recipient,
                   reply_calls, rendered, result, opened, constructed,
                   handler>>

\* slip: the primary send is wrapped in the try block of the reply step
SendPrimaryFail_Swallowed ==
    /\ pc = "primary"
    /\ PrimaryEligible(config.needs_pdfs, pdf_count)
    /\ calls' = Append(calls, PrimaryMessage(FALSE))
    /\ pc' = "reply"
    /\ UNCHANGED <<email, config, original, idx, pdf_count, recipient,
                   reply_calls, rendered, result, opened, constructed,
                   handler>>

\* the primary _send_email raises: nothing in process() catches it
SendPrimaryFail ==
    /\ pc = "primary"
    /\ PrimaryEligible(config.needs_pdfs, pdf_count)
    /\ calls' = Append(calls, PrimaryMessage(FALSE))
    /\ pc' = "done"
    /\ result' = "raised"
    /\ UNCHANGED <<email, config, original, idx, pdf_count, recipient,
                   reply_calls, rendered, opened, constructed, handler>>

SkipPrimary ==
    /\ pc = "primary"
    /\ ~PrimaryEligible(config.needs_pdfs, pdf_count)
    /\ pc' = "reply"
    /\ UNCHANGED <<email, config, original, idx, pdf_count, recipient, calls,
                   reply_calls, rendered, result, opened, constructed,
                   handler>>

(***************************************************************************)
(* process(): the reply step, and _send_reply_email                        *)
(***************************************************************************)
ErrorTemplate == "templates/error.html"

SuccessTemplate == "templates/success.html"

WarningTemplate == "templates/warning.html"

\* slip: the first test is an if of its own, so count 0 falls to the else
Classify_FallThrough(count) ==
    IF count = 1 THEN SuccessTemplate ELSE WarningTemplate

\* if pdf_count == 0 / elif pdf_count == 1 / else
Classify(count) ==
    IF count = 0 THEN ErrorTemplate
    ELSE IF count = 1 THEN SuccessTemplate
    ELSE WarningTemplate

\* slip: the subject is cut before the prefix is added
ReplySubject_CutFirst(subject) ==
    <<"R", "e", ":", " ">> \o Truncate(subject, SubjectLimit)

\* "Re: {}".format(subject)[:255]
ReplySubject(subject) == Truncate(<<"R", "e", ":", " ">> \o subject, SubjectLimit)

SameMailbox(e) == Lower(e.sender) = Lower(e.recipient)

\* slip: the sender is compared as written
IgnoredSender_CaseSensitive(e, cfg) ==
    \E i \in 1..Len(cfg.ignore_reply_senders) :
        cfg.ignore_reply_senders[i] = e.sender

IgnoredSender(e, cfg) ==
    \E i \in 1..Len(cfg.ignore_reply_senders) :
        cfg.ignore_reply_senders[i] = Lower(e.sender)

IgnoredSubject(e, cfg) ==
    \E i \in 1..Len(cfg.ignore_reply_subjects) :
        StartsWith(e.subject, cfg.ignore_reply_subjects[i])

\* the three early returns of _send_reply_email
Suppressed(e, cfg) == SameMailbox(e) \/ IgnoredSender(e, cfg) \/ IgnoredSubject(e, cfg)

\* template.render(email=self._email)
Render(template) == <<"rendered", template>>

ReplyMessage(sent) ==
    Message(ReplyAccount, ReplySubject(email.subject), Render(Head(rendered)),
            <<email.sender>>, <<>>, <<config.reply_to_email>>, sent)

\* send_replies is off: process() returns True
ReplyDisabled ==
    /\ pc = "reply"
    /\ ~config.send_replies
    /\ pc' = "done"
    /\ result' = "True"
    /\ UNCHANGED <<email, config, original, idx, pdf_count, recipient, calls,
                   reply_calls, rendered, opened, constructed, handler>>

\* process() calls _send_reply_email with the template for pdf_count
ReplyEnter ==
    /\ pc = "reply"
    /\ config.send_replies
    /\ reply_calls' = Append(reply_calls, Classify(pdf_count))
    /\ pc' = "template"
    /\ UNCHANGED <<email, config, original, idx, pdf_count, recipient, calls,
                   rendered, result, opened, constructed, handler>>

\* open(template) and template.render() succeed
RenderTemplate ==
    /\ pc = "template"
    /\ rendered' = Append(rendered, reply_calls[Len(reply_calls)])
    /\ pc' = "gates"
    /\ UNCHANGED <<email, config, original, idx, pdf_count, recipient, calls,
                   reply_calls, result, opened, constructed, handler>>

\* open(template) or template.render() raises: caught by process()
RenderTemplateFail ==
    /\ pc = "template"
    /\ pc' = "done"
    /\ result' = "True"
    /\ UNCHANGED <<email, config, original, idx, pdf_count, recipient, calls,
                   reply_calls, rendered, opened, constructed, handler>>

\* one of the suppression gates returns before the send
ReplySuppressed ==
    /\ pc = "gates"
    /\ Suppressed(email, config)
    /\ pc' = "done"
    /\ result' = "True"
    /\ UNCHANGED <<email, config, original, idx, pdf_count, recipient, calls,
                   reply_calls, rendered, opened, constructed, handler>>

SendReply ==
    /\ pc = "gates"
    /\ ~Suppressed(email, config)
    /\ calls' = Append(calls, ReplyMessage(TRUE))
    /\ pc' = "done"
    /\ result' = "True"
    /\ UNCHANGED <<email, config, original, idx, pdf_count, recipient,
                   reply_calls, rendered, opened, constructed, handler>>

\* slip: no try block around the reply step
SendReplyFail_Propagates ==
    /\ pc = "gates"
    /\ ~Suppressed(email, config)
    /\ calls' = Append(calls, ReplyMessage(FALSE))
    /\ pc' = "done"
    /\ result' = "raised"
    /\ UNCHANGED <<email, config, original, idx, pdf_count, recipient,
                   reply_calls, rendered, opened, constructed, handler>>

\* the reply _send_email raises: caught by process()
SendReplyFail ==
    /\ pc = "gates"
    /\ ~Suppressed(email, config)
    /\ calls' = Append(calls, ReplyMessage(FALSE))
    /\ pc' = "done"
    /\ result' = "True"
    /\ UNCHANGED <<email, config, original, idx, pdf_count, recipient,
                   reply_calls, rendered, opened, constructed, handler>>

Next ==
    \/ LoadFilter
    \/ Download
    \/ DownloadFail
    \/ MergePdfs
    \/ MergePdfsFail
    \/ LoadReturn
    \/ ResolveOk
    \/ ResolveFail
    \/ SendPrimary
    \/ SendPrimaryFail
    \/ SkipPrimary
    \/ ReplyDisabled
    \/ ReplyEnter
    \/ RenderTemplate
    \/ RenderTemplateFail
    \/ ReplySuppressed
    \/ SendReply
    \/ SendReplyFail

Spec == Init /\ [][Next]_vars

(***************************************************************************)
(* MailProcessor.__init__ followed by process()                            *)
(*                                                                         *)
(* A processor either comes out of __init__ (pc starts at "init") or is    *)
(* handed to process() without it (pc starts at "load", constructed stays  *)
(* FALSE).                                                                 *)
(***************************************************************************)
ProcessorMaxAttachments == 1

ProcessorEmails ==
    { e \in Emails :
        /\ Len(e.attachments) <= ProcessorMaxAttachments
        /\ e.subject = <<"a","b">>
        /\ e.sender \in { <<"u","@","x">>, <<"b","@","x">> } }

ProcessorConfigs ==
    { [mail_to_mapping |-> c.mail_to_mapping, needs_pdfs |-> c.needs_pdfs,
       pdf_only |-> c.pdf_only, merge_pdfs |-> c.merge_pdfs,
       send_replies |-> c.send_replies, reply_to_email |-> c.reply_to_email,
       ignore_reply_subjects |-> c.ignore_reply_subjects,
       ignore_reply_senders |-> c.ignore_reply_senders,
       hardcoded_recipients |-> h] :
        c \in Configs, h \in BOOLEAN }

InitProcessor ==
    /\ email \in ProcessorEmails
    /\ config \in ProcessorConfigs
    /\ original = email.attachments
    /\ pc \in {"init", "load"}
    /\ idx = 0
    /\ pdf_count = -1
    /\ recipient = <<>>
    /\ calls = <<>>
    /\ reply_calls = <<>>
    /\ rendered = <<>>
    /\ result = "running"
    /\ opened = <<>>
    /\ constructed = FALSE
    /\ handler = NoHandler

\* the mapping key whose entry names the reply account
ReplyIdentityKey(cfg, e) ==
    IF cfg.hardcoded_recipients THEN e.recipient ELSE Standard

\* slip: a missing entry is tolerated
CanConstruct_Always(cfg, e) == TRUE

\* recipient["sender_account"] does not raise: .get() found the entry
CanConstruct(cfg, e) == HasEntry(cfg.mail_to_mapping, ReplyIdentityKey(cfg, e))

Construct ==
    /\ pc = "init"
    /\ CanConstruct(config, email)
    /\ constructed' = TRUE
    /\ pc' = "load"
    /\ UNCHANGED <<email, config, original, idx, pdf_count, recipient, calls,
                   reply_calls, rendered, result, opened, handler>>

\* __init__ raises on recipient["sender_account"]: there is no processor
ConstructFail ==
    /\ pc = "init"
    /\ ~CanConstruct(config, email)
    /\ pc' = "init_raised"
    /\ UNCHANGED <<email, config, original, idx, pdf_count, recipient, calls,
                   reply_calls, rendered, result, opened, constructed,
                   handler>>

\* slip: the handler catches what process() raises and returns
HandlerReturn_Swallows ==
    /\ constructed
    /\ handler.pc = "none"
    /\ pc = "done"
    /\ handler' = [handler EXCEPT !.pc = "returned"]
    /\ UNCHANGED <<email, config, original, pc, idx, pdf_count, recipient,
                   calls, reply_calls, rendered, result, opened, constructed>>

\* handler: process_bool = processor.process(); a False is logged; the
\* handler returns
HandlerReturn ==
    /\ constructed
    /\ handler.pc = "none"
    /\ pc = "done"
    /\ result \in {"True", "False"}
    /\ handler' = [handler EXCEPT !.pc = "returned"]
    /\ UNCHANGED <<email, config, original, pc, idx, pdf_count, recipient,
                   calls, reply_calls, rendered, result, opened, constructed>>

\* handler: what MailProcessor(...) or process() raises is not caught
HandlerPropagate ==
    /\ handler.pc = "none"
    /\ \/ pc = "init_raised"
       \/ constructed /\ pc = "done" /\ result = "raised"
    /\ handler' = [handler EXCEPT !.pc = "raised"]
    /\ UNCHANGED <<email, config, original, pc, idx, pdf_count, recipient,
                   calls, reply_calls, rendered, result, opened, constructed>>

NextProcessor ==
    \/ Construct
    \/ ConstructFail
    \/ Next
    \/ HandlerReturn
    \/ HandlerPropagate

SpecProcessor == InitProcessor /\ [][NextProcessor]_vars

(***************************************************************************)
(* handler(request) of functions/ews-mail-export/main.py ("functions") and *)
(* of cloud_function/main.py ("cloud_function")                            *)
(*                                                                         *)
(* A value of the decoded JSON is PyNone or PyStr(characters); the keys    *)
(* "subject" and "body" of message['email'] may be missing.                *)
(***************************************************************************)
PyNone == <<"None">>

PyStr(chars) == <<"str", chars>>

\* dict.get(key, default)
DictGet(dict, key, default) == IF key \in DOMAIN dict THEN dict[key] ELSE default

\* slip: only a missing key is replaced, a null value is kept
Normalise_MissingOnly(dict, key) ==
    IF key \notin DOMAIN dict THEN (key :> PyStr(<<>>)) @@ dict ELSE dict

\* if message['email'].get(key, None) is None: message['email'][key] = ''
Normalise(dict, key) ==
    IF DictGet(dict, key, PyNone) = PyNone THEN (key :> PyStr(<<>>)) @@ dict
    ELSE dict

\* the value from_dict puts into a str field
FieldOf(dict, key) ==
    IF DictGet(dict, key, PyNone) = PyNone THEN PyNone ELSE dict[key][2]

Variants == {"functions", "cloud_function"}

FieldValues == {PyNone, PyStr(<<>>), PyStr(<<"a","b">>)}

FieldDicts ==
    UNION { [keys -> FieldValues] : keys \in SUBSET {"subject", "body"} }

NoFields == [key \in {} |-> PyNone]

Requests ==
    { [decodable |-> FALSE, sender |-> <<>>, recipient |-> <<>>,
       attachments |-> <<>>, fields |-> NoFields] }
    \cup
    { [decodable |-> TRUE, sender |-> <<"u","@","x">>, recipient |-> InboxKey,
       attachments |-> atts, fields |-> f] :
        atts \in { l \in AttachmentLists : Len(l) <= ProcessorMaxAttachments },
        f \in FieldDicts }

NoEmail ==
    [sender |-> <<>>, recipient |-> <<>>, subject |-> <<>>, body |-> <<>>,
     attachments |-> <<>>]

NoConfig == [mail_to_mapping |-> NoFields]

\* EWSConfig of cloud_function/mail.py, filled from the config module
CloudConfigs ==
    { [mail_to_mapping |-> m, pdf_only |-> po, merge_pdfs |-> mp] :
        m \in Mappings, po \in BOOLEAN, mp \in BOOLEAN }

InitHandler ==
    /\ handler \in { [pc |-> "decode", variant |-> v, request |-> r,
                      message |-> NoFields] : v \in Variants, r \in Requests }
    /\ email = NoEmail
    /\ config = NoConfig
    /\ original = <<>>
    /\ pc = "idle"
    /\ idx = 0
    /\ pdf_count = -1
    /\ recipient = <<>>
    /\ calls = <<>>
    /\ reply_calls = <<>>
    /\ rendered = <<>>
    /\ result = "running"
    /\ opened = <<>>
    /\ constructed = FALSE

\* the envelope is decoded into message
HandlerDecode ==
    /\ handler.pc = "decode"
    /\ handler.request.decodable
    /\ handler' = [handler EXCEPT !.pc = "normalise",
                                  !.message = handler.request.fields]
    /\ UNCHANGED <<email, config, original, pc, idx, pdf_count, recipient,
                   calls, reply_calls, rendered, result, opened, constructed>>

\* decoding raises: logged and raised again
HandlerDecodeFail ==
    /\ handler.pc = "decode"
    /\ ~handler.request.decodable
    /\ handler' = [handler EXCEPT !.pc = "raised"]
    /\ UNCHANGED <<email, config, original, pc, idx, pdf_count, recipient,
                   calls, reply_calls, rendered, result, opened, constructed>>

\* subject and body are replaced by '' when missing or null
HandlerNormalise ==
    /\ handler.pc = "normalise"
    /\ handler' = [handler EXCEPT !.pc = "email",
                      !.message = Normalise(Normalise(@, "subject"), "body")]
    /\ UNCHANGED <<email, config, original, pc, idx, pdf_count, recipient,
                   calls, reply_calls, rendered, result, opened, constructed>>

\* email = from_dict(data_class=Email, data=message['email'])
HandlerBuildEmail ==
    /\ handler.pc = "email"
    /\ email' = [sender |-> handler.request.sender,
                 recipient |-> handler.request.recipient,
                 subject |-> FieldOf(handler.message, "subject"),
                 body |-> FieldOf(handler.message, "body"),
                 attachments |-> handler.request.attachments]
    /\ handler' = [handler EXCEPT !.pc = "config"]
    /\ UNCHANGED <<config, original, pc, idx, pdf_count, recipient, calls,
                   reply_calls, rendered, result, opened, constructed>>

\* cloud_function: EWSConfig(...) is given the six fields it declares
HandlerBuildConfig ==
    /\ handler.pc = "config"
    /\ handler.variant = "cloud_function"
    /\ config' \in CloudConfigs
    /\ handler' = [handler EXCEPT !.pc = "construct"]
    /\ UNCHANGED <<email, original, pc, idx, pdf_count, recipient, calls,
                   reply_calls, rendered, result, opened, constructed>>

\* functions: EWSConfig(...) is given client_id, client_secret and tenant_id,
\* which the dataclass does not declare: TypeError
HandlerConfigFail ==
    /\ handler.pc = "config"
    /\ handler.variant = "functions"
    /\ handler' = [handler EXCEPT !.pc = "raised"]
    /\ UNCHANGED <<email, config, original, pc, idx, pdf_count, recipient,
                   calls, reply_calls, rendered, result, opened, constructed>>

\* cloud_function: MailProcessor(email, configuration)
HandlerConstruct ==
    /\ handler.pc = "construct"
    /\ constructed' = TRUE
    /\ handler' = [handler EXCEPT !.pc = "call"]
    /\ UNCHANGED <<email, config, original, pc, idx, pdf_count, recipient,
                   calls, reply_calls, rendered, result, opened>>

\* cloud_function: processor.process() on a class that only has send():
\* AttributeError
HandlerCallFail ==
    /\ handler.pc = "call"
    /\ handler' = [handler EXCEPT !.pc = "raised"]
    /\ UNCHANGED <<email, config, original, pc, idx, pdf_count, recipient,
                   calls, reply_calls, rendered, result, opened, constructed>>

NextHandler ==
    \/ HandlerDecode
    \/ HandlerDecodeFail
    \/ HandlerNormalise
    \/ HandlerBuildEmail
    \/ HandlerBuildConfig
    \/ HandlerConfigFail
    \/ HandlerConstruct
    \/ HandlerCallFail

SpecHandler == InitHandler /\ [][NextHandler]_vars

(***************************************************************************)
(* MailProcessor.send() of cloud_function/mail.py: _get_attachments, the   *)
(* lookup of the recipient and the one _send_email call                    *)
(***************************************************************************)
CloudEmails ==
    { [sender |-> <<"u","@","x">>, recipient |-> r, subject |-> <<"a","b">>,
       body |-> <<"body">>, attachments |-> atts] :
        r \in Recipients, atts \in AttachmentLists }

InitCloud ==
    /\ email \in CloudEmails
    /\ config \in CloudConfigs
    /\ original = email.attachments
    /\ pc = "cloud_filter"
    /\ idx = 1
    /\ pdf_count = -1
    /\ recipient = <<>>
    /\ calls = <<>>
    /\ reply_calls = <<>>
    /\ rendered = <<>>
    /\ result = "running"
    /\ opened = <<>>
    /\ constructed = TRUE
    /\ handler = NoHandler

\* list.pop(i) of the element at position i (counted from 1 here)
Pop(list, i) == SubSeq(list, 1, i - 1) \o SubSeq(list, i + 1, Len(list))

\* if not self._config.pdf_only: the filter loop is not entered
CloudFilterSkip ==
    /\ pc = "cloud_filter"
    /\ ~config.pdf_only
    /\ pc' = "cloud_download"
    /\ UNCHANGED <<email, config, original, idx, pdf_count, recipient, calls,
                   reply_calls, rendered, result, opened, constructed,
                   handler>>

\* one turn of the enumerate loop on an attachment whose mimetype ends with
\* "pdf": the iterator moves on
CloudFilterKeep ==
    /\ pc = "cloud_filter"
    /\ config.pdf_only
    /\ idx <= Len(email.attachments)
    /\ EndsWith(email.attachments[idx].mimetype, PdfSuffix)
    /\ idx' = idx + 1
    /\ UNCHANGED <<email, config, original, pc, pdf_count, recipient, calls,
                   reply_calls, rendered, result, opened, constructed,
                   handler>>

\* one turn of the enumerate loop on any other attachment: it is popped
\* from the list being iterated, and the iterator moves on all the same
CloudFilterPop ==
    /\ pc = "cloud_filter"
    /\ config.pdf_only
    /\ idx <= Len(email.attachments)
    /\ ~EndsWith(email.attachments[idx].mimetype, PdfSuffix)
    /\ email' = [email EXCEPT !.attachments = Pop(@, idx)]
    /\ idx' = idx + 1
    /\ UNCHANGED <<config, original, pc, pdf_count, recipient, calls,
                   reply_calls, rendered, result, opened, constructed,
                   handler>>

\* the iterator is past the end of the list as it is now
CloudFilterDone ==
    /\ pc = "cloud_filter"
    /\ config.pdf_only
    /\ idx > Len(email.attachments)
    /\ pc' = "cloud_download"
    /\ idx' = 1
    /\ UNCHANGED <<email, config, original, pdf_count, recipient, calls,
                   reply_calls, rendered, result, opened, constructed,
                   handler>>

\* attachment.content = self._read_gcs(bucket, full_path)
CloudDownload ==
    /\ pc = "cloud_download"
    /\ idx <= Len(email.attachments)
    /\ ~ReadGcsFails(email.attachments[idx].full_path)
    /\ email' = [email EXCEPT !.attachments[idx].content =
                    ReadGcs(email.attachments[idx].full_path)]
    /\ idx' = idx + 1
    /\ UNCHANGED <<config, original, pc, pdf_count, recipient, calls,
                   reply_calls, rendered, result, opened, constructed,
                   handler>>

\* get_blob returns None for a missing object: download_as_bytes raises
CloudDownloadFail ==
    /\ pc = "cloud_download"
    /\ idx <= Len(email.attachments)
    /\ ReadGcsFails(email.attachments[idx].full_path)
    /\ pc' = "done"
    /\ result' = "raised"
    /\ UNCHANGED <<email, config, original, idx, pdf_count, recipient, calls,
                   reply_calls, rendered, opened, constructed, handler>>

\* PdfFileReader(file) raises on content that is no PDF
CloudReaderFails(content) == content.kind # "pdf"

CloudMergeFails(atts) == \E i \in 1..Len(atts) : CloudReaderFails(atts[i].content)

\* _merge_pdfs: every attachment of the list is appended to the merger,
\* the merged file goes in front of the non-PDF attachments
CloudMergePdfs ==
    /\ pc = "cloud_download"
    /\ idx > Len(email.attachments)
    /\ email.attachments # <<>> /\ config.merge_pdfs
    /\ ~CloudMergeFails(email.attachments)
    /\ email' = [email EXCEPT !.attachments =
                    <<[mimetype |-> MimePdf, bucket |-> None,
                       file_name |-> Head(@).file_name, full_path |-> None,
                       content |-> [kind |-> "pdf",
                                    pages |-> ConcatPages(@)]]>>
                        \o NonPdfList(@)]
    /\ opened' = email.attachments
    /\ pc' = "cloud_send"
    /\ UNCHANGED <<config, original, idx, pdf_count, recipient, calls,
                   reply_calls, rendered, result, constructed, handler>>

\* _merge_pdfs raises in the merger, after the PDFs were taken off the list
CloudMergePdfsFail ==
    /\ pc = "cloud_download"
    /\ idx > Len(email.attachments)
    /\ email.attachments # <<>> /\ config.merge_pdfs
    /\ CloudMergeFails(email.attachments)
    /\ email' = [email EXCEPT !.attachments = NonPdfList(@)]
    /\ pc' = "done"
    /\ result' = "raised"
    /\ UNCHANGED <<config, original, idx, pdf_count, recipient, calls,
                   reply_calls, rendered, opened, constructed, handler>>

\* nothing to merge: _get_attachments returns
CloudGetReturn ==
    /\ pc = "cloud_download"
    /\ idx > Len(email.attachments)
    /\ ~(email.attachments # <<>> /\ config.merge_pdfs)
    /\ pc' = "cloud_send"
    /\ UNCHANGED <<email, config, original, idx, pdf_count, recipient, calls,
                   reply_calls, rendered, result, opened, constructed,
                   handler>>

\* recipient = self._config.mail_to_mapping.get(self._email.recipient)
CloudRecipient(mapping, key) == IF HasEntry(mapping, key) THEN mapping[key] ELSE None

CloudMessage(to, sent) ==
    [account |-> PrimaryAccount, subject |-> email.subject,
     body |-> email.body, to_recipients |-> <<to>>,
     attachments |-> FileAttachments(email.attachments), sent |-> sent]

\* _send_email(...): send_and_save() returns
CloudSend ==
    /\ pc = "cloud_send"
    /\ recipient' = CloudRecipient(config.mail_to_mapping, email.recipient)
    /\ calls' = Append(calls, CloudMessage(recipient', TRUE))
    /\ pc' = "done"
    /\ result' = "returned"
    /\ UNCHANGED <<email, config, original, idx, pdf_count, reply_calls,
                   rendered, opened, constructed, handler>>

\* _send_email(...): send_and_save() raises
CloudSendFail ==
    /\ pc = "cloud_send"
    /\ recipient' = CloudRecipient(config.mail_to_mapping, email.recipient)
    /\ calls' = Append(calls, CloudMessage(recipient', FALSE))
    /\ pc' = "done"
    /\ result' = "raised"
    /\ UNCHANGED <<email, config, original, idx, pdf_count, reply_calls,
                   rendered, opened, constructed, handler>>

NextCloud ==
    \/ CloudFilterSkip
    \/ CloudFilterKeep
    \/ CloudFilterPop
    \/ CloudFilterDone
    \/ CloudDownload
    \/ CloudDownloadFail
    \/ CloudMergePdfs
    \/ CloudMergePdfsFail
    \/ CloudGetReturn
    \/ CloudSend
    \/ CloudSendFail

SpecCloud == InitCloud /\ [][NextCloud]_vars




(***************************************************************************)
(* Vocabulary of the properties                                            *)
(***************************************************************************)
PrimaryLog == SelectSeq(calls, LAMBDA m : m.account = PrimaryAccount)

ReplyLog == SelectSeq(calls, LAMBDA m : m.account = ReplyAccount)

\* the list the download loop walks over
Filtered == IF config.pdf_only THEN PdfList(original) ELSE original

BlobMissing == \E i \in 1..Len(Filtered) : Filtered[i].full_path \notin DOMAIN Blobs

MergeBreaks ==
    /\ ~BlobMissing
    /\ Filtered # <<>>
    /\ config.merge_pdfs
    /\ \E i \in 1..Len(Filtered) : Blobs[Filtered[i].full_path].kind # "pdf"

\* _load_attachments has returned to process()
LoadReturned ==
    \/ pc \in {"resolve", "primary", "reply", "template", "gates"}
    \/ pc = "done" /\ result \in {"True", "False"}
    \/ pc = "done" /\ result = "raised" /\ calls # <<>>

Unrouted ==
    /\ email.recipient \notin DOMAIN config.mail_to_mapping
    /\ Standard \notin DOMAIN config.mail_to_mapping

\* the three suppression gates, as the specification words them
GateMatches ==
    \/ Lower(email.sender) = Lower(email.recipient)
    \/ \E i \in 1..Len(config.ignore_reply_senders) :
          config.ignore_reply_senders[i] = Lower(email.sender)
    \/ \E i \in 1..Len(config.ignore_reply_subjects) :
          /\ Len(config.ignore_reply_subjects[i]) <= Len(email.subject)
          /\ \A j \in 1..Len(config.ignore_reply_subjects[i]) :
                email.subject[j] = config.ignore_reply_subjects[i][j]

\* the primary step of process() lies behind
PastPrimary ==
    \/ pc \in {"reply", "template", "gates"}
    \/ pc = "done" /\ result = "True"
    \/ pc = "done" /\ result = "raised" /\ calls # <<>>

PrimaryDue == ~config.needs_pdfs \/ pdf_count > 0

(***************************************************************************)
(* C1: when a blob read or the PDF merge of _load_attachments fails, the   *)
(* failure leaves process() as an exception and _send_email has not been   *)
(* called: no primary message and no reply, also when some attachments     *)
(* were downloaded before the failure.                                     *)
(***************************************************************************)
C1_LoadFailureSendsNothing ==
    (BlobMissing \/ MergeBreaks) =>
        /\ calls = <<>>
        /\ reply_calls = <<>>
        /\ pc \in {"load", "download", "done"}
        /\ pc = "done" => result = "raised"

\* the second blob is missing after the first was downloaded
C1_Witness ==
    /\ pc = "done"
    /\ result = "raised"
    /\ BlobMissing
    /\ Len(email.attachments) = 2
    /\ email.attachments[1].content.kind = "pdf"

(***************************************************************************)
(* C2: with neither an entry for email.recipient nor a STANDARD entry, and *)
(* the attachments loaded, process() returns False and _send_email has     *)
(* not been called, whatever needs_pdfs, send_replies and pdf_count are.   *)
(***************************************************************************)
C2_UnroutedReturnsFalse ==
    (Unrouted /\ LoadReturned) =>
        /\ calls = <<>>
        /\ reply_calls = <<>>
        /\ pc \in {"resolve", "done"}
        /\ pc = "done" => result = "False"

C2_Witness ==
    /\ pc = "done"
    /\ result = "False"
    /\ Unrouted
    /\ ~config.needs_pdfs
    /\ config.send_replies
    /\ pdf_count = 1

(***************************************************************************)
(* C3: once the recipient is resolved, the primary message is handed to    *)
(* _send_email exactly once when needs_pdfs is false or pdf_count > 0 and  *)
(* not at all when needs_pdfs is true and pdf_count = 0; in the skipped    *)
(* case the reply step still runs: with send_replies, _send_reply_email is *)
(* called, and it sends the reply when the template renders and no gate    *)
(* matches.                                                                *)
(***************************************************************************)
C3_PrimarySendDecision ==
    /\ pc = "primary" => PrimaryLog = <<>>
    /\ PastPrimary => Len(PrimaryLog) = (IF PrimaryDue THEN 1 ELSE 0)
    /\ (pc = "done" /\ result = "True" /\ ~PrimaryDue /\ config.send_replies) =>
          /\ Len(reply_calls) = 1
          /\ (rendered # <<>> /\ ~GateMatches) => Len(ReplyLog) = 1

\* the primary message was skipped and the reply went out
C3_Witness ==
    /\ pc = "done"
    /\ config.needs_pdfs
    /\ pdf_count = 0
    /\ PrimaryLog = <<>>
    /\ Len(ReplyLog) = 1

(***************************************************************************)
(* C4: when the primary _send_email call fails, process() ends with the    *)
(* exception (it returns neither True nor False), the primary send was     *)
(* attempted once only, and no reply step has run.                         *)
(***************************************************************************)
C4_PrimaryFailurePropagates ==
    (\E i \in 1..Len(calls) : calls[i].account = PrimaryAccount /\ ~calls[i].sent) =>
        /\ pc = "done"
        /\ result = "raised"
        /\ Len(calls) = 1
        /\ reply_calls = <<>>
        /\ rendered = <<>>

C4_Witness ==
    /\ pc = "done"
    /\ result = "raised"
    /\ Len(PrimaryLog) = 1
    /\ ~PrimaryLog[1].sent
    /\ config.send_replies
    /\ ~GateMatches

(***************************************************************************)
(* C5: a failure inside the reply step (template or reply transport) is    *)
(* caught: process() returns True, and no step of the reply stage changes  *)
(* what the primary send decision has done.                                *)
(***************************************************************************)
ReplyFailed ==
    \/ pc = "done" /\ reply_calls # <<>> /\ rendered = <<>>
    \/ \E i \in 1..Len(calls) : calls[i].account = ReplyAccount /\ ~calls[i].sent

ReplyStageStep ==
    pc \in {"reply", "template", "gates"} =>
        (PrimaryLog' = PrimaryLog /\ (pc' = "done" => result' = "True"))

C5_ReplyFailureCaught ==
    /\ [](ReplyFailed => (pc = "done" /\ result = "True"))
    /\ [][ReplyStageStep]_vars

\* the reply transport failed after the primary message went out
C5_Witness ==
    /\ pc = "done"
    /\ result = "True"
    /\ Len(ReplyLog) = 1
    /\ ~ReplyLog[1].sent
    /\ Len(PrimaryLog) = 1
    /\ PrimaryLog[1].sent

(***************************************************************************)
(* C6: no reply is handed to _send_email in an invocation where a          *)
(* suppression gate matches (sender equals recipient ignoring case, the    *)
(* lower-cased sender is on ignore_reply_senders, or the subject starts    *)
(* with an entry of ignore_reply_subjects), whatever the configuration.    *)
(***************************************************************************)
C6_SuppressedNoReply == GateMatches => ReplyLog = <<>>

\* a sender that is on the ignore list only once lower-cased reached the gates
C6_Witness ==
    /\ pc = "done"
    /\ result = "True"
    /\ rendered # <<>>
    /\ config.send_replies
    /\ email.sender # Lower(email.sender)
    /\ Lower(email.sender) # Lower(email.recipient)
    /\ GateMatches
    /\ Len(PrimaryLog) = 1

(***************************************************************************)
(* C7 as stated: once process() is over with the recipient resolved,       *)
(* send_replies true and no gate matching, exactly one reply has been      *)
(* handed to _send_email.                                                  *)
(***************************************************************************)
ReplyAsSpecified(m) ==
    /\ m.account = ReplyAccount
    /\ m.account # PrimaryAccount
    /\ m.to_recipients = <<email.sender>>
    /\ m.reply_to = <<config.reply_to_email>>
    /\ Len(m.subject) = Min(SubjectLimit, 4 + Len(email.subject))
    /\ \A j \in 1..Len(m.subject) :
          m.subject[j] = (<<"R", "e", ":", " ">> \o email.subject)[j]
    /\ m.attachments = <<>>

C7_Original ==
    (pc = "done" /\ recipient # <<>> /\ config.send_replies /\ ~GateMatches) =>
        (Len(ReplyLog) = 1 /\ ReplyAsSpecified(ReplyLog[1]))

(***************************************************************************)
(* C7 amended: when process() returns True with send_replies true, no gate *)
(* matching and the reply template opened and rendered, exactly one reply  *)
(* has been handed to _send_email: through the reply account, to           *)
(* [email.sender], reply-to reply_to_email, subject "Re: " + subject cut   *)
(* to 255 characters, no attachments. With send_replies false there is no  *)
(* reply.                                                                  *)
(***************************************************************************)
C7_ReplyMessage ==
    /\ (pc = "done" /\ result = "True" /\ config.send_replies /\ ~GateMatches
            /\ rendered # <<>>) =>
          (Len(ReplyLog) = 1 /\ ReplyAsSpecified(ReplyLog[1]))
    /\ Len(ReplyLog) <= 1
    /\ ~config.send_replies => (ReplyLog = <<>> /\ reply_calls = <<>>)

\* a reply whose subject was cut
C7_Witness ==
    /\ pc = "done"
    /\ Len(ReplyLog) = 1
    /\ Len(email.subject) + 4 > SubjectLimit
    /\ Len(ReplyLog[1].subject) = SubjectLimit

(***************************************************************************)
(* C8: the primary message has exactly one recipient: the recipient_email  *)
(* of the entry for email.recipient when there is one, else (a STANDARD    *)
(* entry exists) email.recipient itself.                                   *)
(***************************************************************************)
C8_PrimaryAddress ==
    \A i \in 1..Len(PrimaryLog) :
        /\ Len(PrimaryLog[i].to_recipients) = 1
        /\ IF email.recipient \in DOMAIN config.mail_to_mapping
           THEN PrimaryLog[i].to_recipients[1] =
                    config.mail_to_mapping[email.recipient].recipient_email
           ELSE /\ Standard \in DOMAIN config.mail_to_mapping
                /\ PrimaryLog[i].to_recipients[1] = email.recipient

\* the fallback: only STANDARD is mapped
C8_Witness ==
    /\ Len(PrimaryLog) = 1
    /\ email.recipient \notin DOMAIN config.mail_to_mapping
    /\ PrimaryLog[1].to_recipients = <<email.recipient>>
    /\ PrimaryLog[1].to_recipients[1] #
            config.mail_to_mapping[Standard].recipient_email

(***************************************************************************)
(* C9: the template process() passes to _send_reply_email depends on       *)
(* pdf_count only: error for 0, success for 1, warning for 2 and more;     *)
(* never more than one template is chosen, and exactly one whenever the    *)
(* reply step runs with send_replies true.                                 *)
(***************************************************************************)
C9_TemplateByPdfCount ==
    /\ Len(reply_calls) <= 1
    /\ \A i \in 1..Len(reply_calls) :
          /\ pdf_count = 0 => reply_calls[i] = "templates/error.html"
          /\ pdf_count = 1 => reply_calls[i] = "templates/success.html"
          /\ pdf_count >= 2 => reply_calls[i] = "templates/warning.html"
    /\ (pc \in {"template", "gates"} \/ (pc = "done" /\ result = "True"
            /\ config.send_replies)) => Len(reply_calls) = 1

C9_Witness ==
    /\ pc = "done"
    /\ pdf_count = 0
    /\ reply_calls = <<"templates/error.html">>
    /\ Len(ReplyLog) = 1

(***************************************************************************)
(* C10: the value _load_attachments returns is the number of attachments   *)
(* of the original list whose mimetype ends with "pdf", whatever pdf_only  *)
(* and merge_pdfs are; the merge does not change it.                       *)
(***************************************************************************)
C10_PdfCountOfOriginal ==
    LoadReturned =>
        pdf_count = Cardinality({i \in 1..Len(original) :
                        /\ Len(original[i].mimetype) >= 3
                        /\ original[i].mimetype[Len(original[i].mimetype) - 2] = "p"
                        /\ original[i].mimetype[Len(original[i].mimetype) - 1] = "d"
                        /\ original[i].mimetype[Len(original[i].mimetype)] = "f"})

\* two PDFs merged into one: the list holds one PDF, the count is two
C10_Witness ==
    /\ LoadReturned
    /\ config.merge_pdfs
    /\ pdf_count = 2
    /\ Len(email.attachments) = 1
    /\ Len(email.attachments[1].content.pages) = 3

(***************************************************************************)
(* Vocabulary of the attachment properties                                 *)
(***************************************************************************)
\* the mimetype ends with "pdf"
MimeEndsPdf(m) ==
    /\ Len(m) >= 3
    /\ m[Len(m) - 2] = "p"
    /\ m[Len(m) - 1] = "d"
    /\ m[Len(m)] = "f"

\* an attachment as it came in, whatever was downloaded into it
Unloaded(a) == [a EXCEPT !.content = NoContent]

NamesOf(atts) == [i \in 1..Len(atts) |-> atts[i].file_name]

(***************************************************************************)
(* C11: with pdf_only, once _load_attachments has returned the attachment  *)
(* list of the email, and so the list attached to the primary message,     *)
(* holds only attachments whose mimetype ends with "pdf", with or without  *)
(* merge_pdfs.                                                             *)
(***************************************************************************)
C11_PdfOnlyKeepsPdfs ==
    (LoadReturned /\ config.pdf_only) =>
        /\ \A i \in 1..Len(email.attachments) :
              MimeEndsPdf(email.attachments[i].mimetype)
        /\ \A i \in 1..Len(PrimaryLog) :
              [j \in 1..Len(PrimaryLog[i].attachments) |->
                    PrimaryLog[i].attachments[j].name] = NamesOf(email.attachments)

\* a PDF was kept, another attachment dropped, and the message went out
C11_Witness ==
    /\ config.pdf_only
    /\ ~config.merge_pdfs
    /\ Len(original) = 2
    /\ ~MimeEndsPdf(original[1].mimetype)
    /\ Len(email.attachments) = 1
    /\ Len(PrimaryLog) = 1
    /\ Len(PrimaryLog[1].attachments) = 1

(***************************************************************************)
(* C12: with merge_pdfs and a non-empty list after filtering, a successful *)
(* _load_attachments leaves one synthetic PDF first (application/pdf,      *)
(* bucket and path null, named after the first attachment of the list      *)
(* before merging, PDF or not), then exactly the non-PDF attachments in    *)
(* their order; no original PDF attachment remains.                        *)
(***************************************************************************)
C12_MergedListShape ==
    (LoadReturned /\ config.merge_pdfs /\ Filtered # <<>>) =>
        /\ email.attachments # <<>>
        /\ email.attachments[1].mimetype = MimePdf
        /\ email.attachments[1].bucket = None
        /\ email.attachments[1].full_path = None
        /\ email.attachments[1].file_name = Filtered[1].file_name
        /\ [i \in 1..(Len(email.attachments) - 1) |->
                Unloaded(email.attachments[i + 1])]
              = SelectSeq(Filtered, LAMBDA a : ~MimeEndsPdf(a.mimetype))
        /\ \A i \in 1..Len(email.attachments) :
              MimeEndsPdf(email.attachments[i].mimetype) => i = 1

\* the list began with an attachment that is no PDF by mimetype
C12_Witness ==
    /\ LoadReturned
    /\ config.merge_pdfs
    /\ Len(Filtered) = 2
    /\ ~MimeEndsPdf(Filtered[1].mimetype)
    /\ MimeEndsPdf(Filtered[2].mimetype)
    /\ Len(email.attachments) = 2
    /\ email.attachments[1].file_name = Filtered[1].file_name

(***************************************************************************)
(* C13: once _load_attachments has returned, every attachment of the list  *)
(* has content, so no attachment without content reaches the primary send. *)
(***************************************************************************)
C13_ContentLoaded ==
    LoadReturned =>
        /\ \A i \in 1..Len(email.attachments) :
              email.attachments[i].content # NoContent
        /\ \A i \in 1..Len(PrimaryLog) :
              \A j \in 1..Len(PrimaryLog[i].attachments) :
                  PrimaryLog[i].attachments[j].content # NoContent

\* two downloaded attachments were sent unmerged
C13_Witness ==
    /\ ~config.merge_pdfs
    /\ Len(PrimaryLog) = 1
    /\ Len(PrimaryLog[1].attachments) = 2
    /\ PrimaryLog[1].attachments[1].content.kind = "pdf"
    /\ PrimaryLog[1].attachments[2].content.kind = "raw"

(***************************************************************************)
(* C15: the buffers _merge_pdfs opens are the contents of the attachments  *)
(* whose mimetype ends with "pdf", in list order, at least one; the        *)
(* content of another attachment is never opened as a PDF. So with         *)
(* merge_pdfs and without pdf_only, an email with a non-PDF attachment     *)
(* next to valid PDFs is merged and sent, not aborted.                     *)
(***************************************************************************)
\* every attachment is there, every PDF is a valid one, and some is no PDF
ValidPdfsAndMore ==
    /\ \E i \in 1..Len(original) : MimeEndsPdf(original[i].mimetype)
    /\ \E i \in 1..Len(original) : ~MimeEndsPdf(original[i].mimetype)
    /\ \A i \in 1..Len(original) :
          /\ original[i].full_path \in DOMAIN Blobs
          /\ MimeEndsPdf(original[i].mimetype) =>
                Blobs[original[i].full_path].kind = "pdf"

C15_MergeOpensOnlyPdfs ==
    /\ \A i \in 1..Len(opened) : MimeEndsPdf(opened[i].mimetype)
    /\ (opened # <<>> /\ LoadReturned) =>
          [i \in 1..Len(opened) |-> Unloaded(opened[i])]
              = SelectSeq(Filtered, LAMBDA a : MimeEndsPdf(a.mimetype))
    /\ (pc = "done" /\ config.merge_pdfs /\ ~config.pdf_only /\ ValidPdfsAndMore) =>
          ~(result = "raised" /\ calls = <<>>)

(***************************************************************************)
(* C16: the suppression gates come before the template: the reply template *)
(* is opened and rendered only in an invocation where send_replies is true *)
(* and no suppression gate matches.                                        *)
(***************************************************************************)
C16_RenderOnlyUnsuppressed ==
    rendered # <<>> => (config.send_replies /\ ~GateMatches)

(***************************************************************************)
(* C19: process() calls the transport at most twice: at most one primary   *)
(* send through the primary account and at most one reply send through the *)
(* reply account; a reply send starts only after the primary send has      *)
(* returned or was skipped by the needs_pdfs rule, never before it.        *)
(***************************************************************************)
C19_AtMostTwoSendsInOrder ==
    /\ Len(calls) <= 2
    /\ Len(PrimaryLog) <= 1
    /\ Len(ReplyLog) <= 1
    /\ \A i \in 1..Len(calls) :
          /\ calls[i].account = PrimaryAccount => i = 1
          /\ calls[i].account = ReplyAccount =>
                /\ \A j \in 1..(i - 1) :
                      calls[j].account = PrimaryAccount /\ calls[j].sent
                /\ i = 1 => (config.needs_pdfs /\ pdf_count = 0)
                /\ i = 2 => (~config.needs_pdfs \/ pdf_count > 0)

\* both sends happened, the primary one first
C19_Witness ==
    /\ pc = "done"
    /\ Len(calls) = 2
    /\ calls[1].account = PrimaryAccount
    /\ calls[1].sent
    /\ calls[2].account = ReplyAccount

(***************************************************************************)
(* C17: where MailProcessor.__init__ completed, process() never returns    *)
(* False: __init__ needs the entry of mail_to_mapping for email.recipient  *)
(* (hardcoded_recipients) or for "STANDARD" (otherwise) and fails without  *)
(* it, and the mapping does not change afterwards.                         *)
(***************************************************************************)
ReplyEntryPresent ==
    \/ config.hardcoded_recipients /\ email.recipient \in DOMAIN config.mail_to_mapping
    \/ ~config.hardcoded_recipients /\ Standard \in DOMAIN config.mail_to_mapping

C17_ConstructedNeverFalse ==
    /\ constructed => (result # "False" /\ ReplyEntryPresent)
    /\ pc = "init_raised" => ~ReplyEntryPresent

\* built from the STANDARD entry, routed by the fallback, returned True
C17_Witness ==
    /\ constructed
    /\ pc = "done"
    /\ result = "True"
    /\ ~config.hardcoded_recipients
    /\ email.recipient \notin DOMAIN config.mail_to_mapping
    /\ Len(PrimaryLog) = 1

(***************************************************************************)
(* C14: the Email record the handler builds never has a null or missing    *)
(* subject or body: a subject or body that is absent or null in the        *)
(* decoded message is replaced by the empty string before the record is    *)
(* built, and one that is present and not null is passed through           *)
(* unchanged.                                                              *)
(***************************************************************************)
EmailBuilt == handler.pc \in {"config", "construct", "call", "raised"}
                 /\ handler.request.decodable

\* what the claim asks of one field of the record
Substituted(key, value) ==
    /\ value # <<"None">>
    /\ IF key \in DOMAIN handler.request.fields
            /\ handler.request.fields[key] # <<"None">>
       THEN <<"str", value>> = handler.request.fields[key]
       ELSE value = <<>>

C14_SubjectAndBodyNeverNull ==
    EmailBuilt =>
        /\ Substituted("subject", email.subject)
        /\ Substituted("body", email.body)

\* a null subject and a missing body became '', next to a kept attachment
C14_Witness ==
    /\ EmailBuilt
    /\ "subject" \in DOMAIN handler.request.fields
    /\ handler.request.fields["subject"] = <<"None">>
    /\ "body" \notin DOMAIN handler.request.fields
    /\ email.subject = <<>>
    /\ email.body = <<>>
    /\ Len(email.attachments) = 1

(***************************************************************************)
(* C18: for every decodable event the handler builds the configuration and *)
(* the MailProcessor and calls process() exactly once; it does not fail    *)
(* between decoding the event and calling process().                       *)
(***************************************************************************)
C18_DecodedEventReachesProcess ==
    (handler.pc = "raised" /\ handler.request.decodable) => pc # "idle"

(***************************************************************************)
(* C20: the caller of the handler sees success or a raised error: when the *)
(* handler returns normally, process() returned True in that invocation,   *)
(* and a routing failure (process() returning False) never ends in a       *)
(* normal return of the handler.                                           *)
(***************************************************************************)
C20_NormalReturnMeansTrue ==
    /\ handler.pc = "returned" => (constructed /\ result = "True")
    /\ handler.pc = "raised" => result # "True"

\* the handler returned normally after a primary send through the fallback
C20_Witness ==
    /\ handler.pc = "returned"
    /\ result = "True"
    /\ email.recipient \notin DOMAIN config.mail_to_mapping
    /\ Len(PrimaryLog) = 1
    /\ PrimaryLog[1].sent

(***************************************************************************)
(* C21: in cloud_function, _get_attachments with pdf_only leaves, before   *)
(* any download is started, exactly the attachments of the input list      *)
(* whose mimetype ends with "pdf": every attachment that remains is one,   *)
(* and every such attachment of the input remains, also for lists with two *)
(* or more consecutive attachments of another mimetype.                    *)
(***************************************************************************)
\* the filter loop is over and no content has been read yet
CloudFiltered == pc = "cloud_download" /\ idx = 1 /\ config.pdf_only

C21_CloudPdfOnlyFilter ==
    CloudFiltered =>
        /\ \A i \in 1..Len(email.attachments) :
                MimeEndsPdf(email.attachments[i].mimetype)
        /\ email.attachments = PdfList(original)

\* what the loop does leave: nothing but PDFs after every attachment that
\* follows a popped one was let through unexamined
C21_Skipped ==
    /\ CloudFiltered
    /\ Len(original) = 2
    /\ ~MimeEndsPdf(original[1].mimetype)
    /\ ~MimeEndsPdf(original[2].mimetype)
    /\ email.attachments = <<original[2]>>

====
